---- MODULE Spec2Model ----
(***************************************************************************)
(* A model of the audio streaming server (src/server.py) and its shells.   *)
(*                                                                         *)
(* SelectSpec  : start_capture on any list of host devices: the device    *)
(*               _find_loopback selects and the stream is opened on.       *)
(* CaptureSpec : one SystemAudioTrack -- the device callback thread, the   *)
(*               pushes it schedules on the event loop, the bounded queue, *)
(*               recv and stop.                                            *)
(* Spec        : the signalling side -- offers, the registry pcs, the      *)
(*               connectionstatechange handlers, on_startup / on_shutdown. *)
(* ProducerSpec: the callback thread against an event loop that may have   *)
(*               been closed.                                              *)
(* TkSpec      : the CustomTkinter shell (src/app.py) starting and         *)
(*               stopping the server thread.                               *)
(* QtSpec      : the PyQt shell (src/app_pyqt.py), with its start guard,   *)
(*               port probe and queued signals.                            *)
(*                                                                         *)
(* Audio buffers are identified by the ordinal of the callback that        *)
(* delivered them (1, 2, 3, ...).                                          *)
(***************************************************************************)
EXTENDS Integers, Sequences, FiniteSets

\* ---------------------------------------------------------------- constants
FRAME_SAMPLES == 960
QUEUE_MAXSIZE == 20

\* ------------------------------------------------------------------- bounds
MaxBuffers == 22        \* callbacks delivered in a run
MaxScheduled == 2       \* _push_frame calls waiting on the event loop
MaxStopCalls == 2       \* calls of SystemAudioTrack.stop
MaxSessions == 2        \* peer connections created in a run
MaxDevices == 3         \* devices the host lists
MaxRuns == 3            \* server threads a shell starts

Sessions == 1..MaxSessions

VARIABLES
  \* SystemAudioTrack
  stream,        \* _stream: "none" | "opened" | "active" | "closed"
  loopSet,       \* _loop has been assigned
  sample_count,  \* _sample_count
  queue,         \* _queue: buffers, oldest first
  ended,         \* MediaStreamTrack ended (super().stop() ran)
  \* the device thread and the event loop
  delivered,     \* callbacks delivered so far (the id of the latest buffer)
  scheduled,     \* _push_frame calls handed to call_soon_threadsafe, FIFO
  \* the caller of recv (one consumer)
  recvPc,        \* "idle" | "waiting" | "got"
  inHand,        \* the buffer recv has dequeued and not yet returned (0: none)
  \* observations
  startResult,   \* "none" | "ok" | "raised": how start_capture ended
  stopCalls,     \* calls of SystemAudioTrack.stop
  streamStops,   \* calls of _stream.stop()
  streamCloses,  \* calls of _stream.close()
  pushed,        \* buffers handed to _push_frame so far
  evicted,       \* buffers _push_frame discarded from the queue
  returned,      \* buffers returned by recv, in order
  ptsLog,        \* pts of the last two frames returned by recv
  devices,       \* what sd.query_devices() lists, in its order
  opens,         \* the device argument of each sd.InputStream(...) made
  streamStarts,  \* calls of _stream.start()
  lastStatus,    \* the status flag of the latest callback
  loopClosed,    \* the event loop _loop refers to has been closed
  handoffErrors, \* call_soon_threadsafe errors the callback caught
  callbackRaised \* exceptions that left the callback

captureVars == <<stream, loopSet, sample_count, queue, ended, delivered,
                 scheduled, recvPc, inHand, startResult, stopCalls,
                 streamStops, streamCloses, pushed, evicted, returned, ptsLog,
                 devices, opens, streamStarts, lastStatus, loopClosed,
                 handoffErrors, callbackRaised>>

\* what only the callback and the loop's owner write
handoffVars == <<lastStatus, loopClosed, handoffErrors, callbackRaised>>

VARIABLES
  \* module globals and the hosting web application
  app,           \* "init" | "unavailable" | "serving" | "gathering" | "closing" | "stopped"
  audio_track,   \* "none" | "track"
  pcs,           \* the registry: sessions in the set pcs
  \* one RTCPeerConnection per session
  cs,            \* connectionState, "none" before the session exists
  closeSt,       \* pc.close(): "open" | "closing" | "closed"
  handles,       \* sessions whose transport handle is open
  subs,          \* sessions holding a relay subscription
  hq,            \* on_connectionstatechange runs scheduled and not yet started
  hwait,         \* on_connectionstatechange runs suspended in "await pc.close()"
  offerSt,       \* the offer request: "none" | "inflight" | "answered" | "failed"
  offerBody,     \* the body of the request that created the session
  shutSnapshot,  \* the sessions on_shutdown made a close coroutine for
  \* observations
  handleReleases,\* times the session's transport handle was released
  subReleases,   \* times the session's subscription was released
  failRuns,      \* completed runs of the handler's failed branch
  handlerErrors, \* exceptions raised inside on_connectionstatechange
  lastOffer,     \* <<body, result>> of the offer request that ended last
  tracksCreated  \* SystemAudioTrack objects constructed

sessVars == <<app, audio_track, pcs, cs, closeSt, handles, subs, hq, hwait,
              offerSt, offerBody, shutSnapshot, handleReleases, subReleases, failRuns,
              handlerErrors, lastOffer, tracksCreated>>

Runs == 1..MaxRuns

VARIABLES
  \* a GUI shell (app.py, app_pyqt.py) and the server threads it starts
  server_running,   \* self.server_running
  starting_server,  \* self._starting_server (app_pyqt.py)
  btn,              \* what the button shows: "start" | "stop"
  selected,         \* the device chosen in the Audio Source selector
  run,              \* where each server thread is, "none" before it exists
  loopOf,           \* the thread whose event loop self.loop is (0: None)
  stopReq,          \* threads whose loop has been told to stop
  port,             \* the thread whose site holds port 8080 (0: free)
  sigq,             \* Qt signals emitted and not yet delivered
  trackRef,         \* the thread whose track server.audio_track is (0: None)
  tstream,          \* the device stream of each thread's track
  topen,            \* the device argument each thread's stream was made with
  selAtStart,       \* the selector's device when the thread was started
  stopper           \* the thread whose on_shutdown stopped each track (0: none)

shellVars == <<server_running, starting_server, btn, selected, run, loopOf,
               stopReq, port, sigq, trackRef, tstream, topen, selAtStart,
               stopper>>

vars == <<captureVars, sessVars, shellVars>>

\* --------------------------------------------------------- SystemAudioTrack

\* __init__: an empty queue of maxsize 20, no loop, no stream
TrackInit ==
  /\ stream = "none"
  /\ loopSet = FALSE
  /\ sample_count = 0
  /\ queue = <<>>
  /\ ended = FALSE
  /\ delivered = 0
  /\ scheduled = <<>>
  /\ recvPc = "idle"
  /\ inHand = 0
  /\ startResult = "none"
  /\ stopCalls = 0
  /\ streamStops = 0
  /\ streamCloses = 0
  /\ pushed = 0
  /\ evicted = {}
  /\ returned = <<>>
  /\ ptsLog = <<>>
  /\ opens = <<>>
  /\ streamStarts = 0
  /\ lastStatus = FALSE
  /\ loopClosed = FALSE
  /\ handoffErrors = 0
  /\ callbackRaised = 0

\* A queue without a maxsize is never full.
QueueNeverFull(q) == FALSE

\* asyncio.Queue.full()
QueueFull(q) == Len(q) >= QUEUE_MAXSIZE

\* A push that keeps the oldest buffers and loses the new one on a full queue.
PushFrameDropNewest(q, data) ==
  IF QueueFull(q) THEN q ELSE Append(q, data)

\* _push_frame: the queue after pushing data
PushFrameQueue(q, data) ==
  LET q1 == IF QueueFull(q) /\ q # <<>> THEN Tail(q) ELSE q
  IN  IF QueueFull(q1) THEN q1 ELSE Append(q1, data)

\* _push_frame: the buffers it discards
PushFrameEvicts(q) ==
  IF QueueFull(q) /\ q # <<>> THEN {Head(q)} ELSE {}

\* ------------------------------------------------------- device selection

\* Strings are sequences of characters here, so that lower() and the
\* substring test "keyword in name" are computed.

UpperCase ==
  <<"A", "B", "C", "D", "E", "F", "G", "H", "I", "J", "K", "L", "M", "N",
    "O", "P", "Q", "R", "S", "T", "U", "V", "W", "X", "Y", "Z">>

LowerCase ==
  <<"a", "b", "c", "d", "e", "f", "g", "h", "i", "j", "k", "l", "m", "n",
    "o", "p", "q", "r", "s", "t", "u", "v", "w", "x", "y", "z">>

\* str.lower(), one character
LowerChar(c) ==
  IF \E i \in DOMAIN UpperCase : UpperCase[i] = c
    THEN LowerCase[CHOOSE i \in DOMAIN UpperCase : UpperCase[i] = c]
    ELSE c

\* str.lower()
Lower(s) == [i \in 1..Len(s) |-> LowerChar(s[i])]

\* "keyword in name"
Contains(keyword, name) ==
  \E i \in 1..(Len(name) - Len(keyword) + 1) :
    SubSeq(name, i, i + Len(keyword) - 1) = keyword

\* priority_keywords, in the order _find_loopback tries them
priority_keywords == <<
  <<"c", "a", "b", "l", "e", " ", "o", "u", "t", "p", "u", "t">>,
  <<"m", "o", "n", "i", "t", "o", "r">>,
  <<"s", "t", "e", "r", "e", "o", " ", "m", "i", "x">>,
  <<"l", "o", "o", "p", "b", "a", "c", "k">>,
  <<"p", "u", "l", "s", "e">>,
  <<"w", "h", "a", "t", " ", "u", " ", "h", "e", "a", "r">>>>

\* device names the host may list
NameMicrophone ==
  <<"M", "i", "c", "r", "o", "p", "h", "o", "n", "e">>
NameCableOutput ==
  <<"C", "A", "B", "L", "E", " ", "O", "u", "t", "p", "u", "t", " ", "(",
    "V", "B", "-", "A", "u", "d", "i", "o", ")">>
NameSpeakers ==
  <<"S", "p", "e", "a", "k", "e", "r", "s">>
NameStereoMix ==
  <<"S", "t", "e", "r", "e", "o", " ", "M", "i", "x", " ", "(", "R", "e",
    "a", "l", "t", "e", "k", ")">>
NameMonitor ==
  <<"M", "o", "n", "i", "t", "o", "r", " ", "o", "f", " ", "B", "u", "i",
    "l", "t", "-", "i", "n", " ", "A", "u", "d", "i", "o">>
NameLoopbackOut ==
  <<"L", "o", "o", "p", "b", "a", "c", "k", " ", "P", "l", "a", "y", "b",
    "a", "c", "k">>

\* an entry of sd.query_devices()
Device(name, inputs) == [name |-> name, max_input_channels |-> inputs]

\* the devices a host may list: inputs, an output, and an output whose name
\* carries a keyword
DeviceCatalogue ==
  {Device(NameMicrophone, 2), Device(NameCableOutput, 2),
   Device(NameSpeakers, 0), Device(NameStereoMix, 2),
   Device(NameMonitor, 2), Device(NameLoopbackOut, 0)}

\* the device lists selection is checked on
DeviceLists ==
  UNION {[1..n -> DeviceCatalogue] : n \in 0..MaxDevices}

\* the host of the streaming runs: Microphone, CABLE Output, Speakers
HostDevices ==
  <<Device(NameMicrophone, 2), Device(NameCableOutput, 2),
    Device(NameSpeakers, 0)>>

\* the platform default: no device index
None == <<>>

\* the device index i (Python counts from 0)
Index(i) == <<i - 1>>

\* A test that takes a device on its name alone, whatever its direction.
MatchesAnyDirection(d, keyword) == Contains(keyword, Lower(d.name))

\* _find_loopback: "d['max_input_channels'] > 0 and keyword in name"
Matches(d, keyword) ==
  /\ d.max_input_channels > 0
  /\ Contains(keyword, Lower(d.name))

\* _find_loopback, the inner loop: the first device from position i on that
\* matches the keyword
RECURSIVE ScanDevices(_, _, _)
ScanDevices(devs, keyword, i) ==
  IF i > Len(devs) THEN None
  ELSE IF Matches(devs[i], keyword) THEN Index(i)
  ELSE ScanDevices(devs, keyword, i + 1)

\* _find_loopback, the outer loop: the keywords from position k on, in order
RECURSIVE ScanKeywords(_, _)
ScanKeywords(devs, k) ==
  IF k > Len(priority_keywords) THEN None
  ELSE IF ScanDevices(devs, priority_keywords[k], 1) # None
         THEN ScanDevices(devs, priority_keywords[k], 1)
  ELSE ScanKeywords(devs, k + 1)

\* A selection that walks the device list first and takes the first device
\* matching any keyword.
find_first_listed(devs) ==
  LET hits == {i \in 1..Len(devs) :
                 \E k \in DOMAIN priority_keywords :
                   Matches(devs[i], priority_keywords[k])}
  IN  IF hits = {} THEN None
      ELSE Index(CHOOSE i \in hits : \A j \in hits : i <= j)

\* _find_loopback
find_loopback(devs) == ScanKeywords(devs, 1)

\* start_capture: _loop is set, the device is selected, then the device stream
\* is constructed on it and started; the constructor or start() may raise.
start_capture ==
  /\ startResult = "none"
  /\ stopCalls = 0
  /\ \E outcome \in {"ok", "open_raises", "start_raises"} :
       /\ loopSet' = TRUE
       /\ stream' = CASE outcome = "ok" -> "active"
                      [] outcome = "open_raises" -> "none"
                      [] outcome = "start_raises" -> "opened"
       /\ startResult' = IF outcome = "ok" THEN "ok" ELSE "raised"
       /\ opens' = Append(opens, find_loopback(devices))
       /\ streamStarts' = IF outcome = "open_raises" THEN streamStarts
                          ELSE streamStarts + 1
  /\ UNCHANGED <<sample_count, queue, ended, delivered, scheduled, recvPc,
                 inHand, stopCalls, streamStops, streamCloses,
                 pushed, evicted, returned, ptsLog, devices>>
  /\ UNCHANGED handoffVars

\* A callback that throws away the buffer of a flagged callback.
DropsFlagged(status) == ~status

\* _callback: "if status:" only prints; the hand-off follows whatever the flag
HandsOff(status) == TRUE

\* A callback without the try around the hand-off.
HandoffErrorEscapes == FALSE

\* _callback: "except Exception" around call_soon_threadsafe
HandoffErrorCaught == TRUE

\* _callback, on the device thread: count the samples, hand a copy of the
\* buffer to the event loop.  status only prints.  On a closed loop
\* call_soon_threadsafe raises RuntimeError and nothing is scheduled.
Callback ==
  /\ stream = "active"
  /\ delivered < MaxBuffers
  /\ loopClosed \/ Len(scheduled) < MaxScheduled
  /\ \E status \in BOOLEAN :
       /\ lastStatus' = status
       /\ delivered' = delivered + 1
       /\ sample_count' = sample_count + FRAME_SAMPLES
       /\ IF loopClosed
            THEN /\ UNCHANGED scheduled
                 /\ IF HandoffErrorCaught
                      THEN /\ handoffErrors' = handoffErrors + 1
                           /\ UNCHANGED callbackRaised
                      ELSE /\ callbackRaised' = callbackRaised + 1
                           /\ UNCHANGED handoffErrors
            ELSE /\ scheduled' = IF HandsOff(status)
                                   THEN Append(scheduled, delivered + 1)
                                   ELSE scheduled
                 /\ UNCHANGED <<handoffErrors, callbackRaised>>
  /\ UNCHANGED loopClosed
  /\ UNCHANGED <<stream, loopSet, queue, ended, recvPc, inHand, startResult,
                 stopCalls, streamStops, streamCloses, pushed,
                 evicted, returned, ptsLog, devices, opens, streamStarts>>
  /\ UNCHANGED sessVars
  /\ UNCHANGED shellVars

\* the event loop runs the oldest scheduled _push_frame
PushFrame ==
  /\ ~loopClosed
  /\ scheduled # <<>>
  /\ queue' = PushFrameQueue(queue, Head(scheduled))
  /\ evicted' = evicted \cup PushFrameEvicts(queue)
  /\ pushed' = Head(scheduled)
  /\ scheduled' = Tail(scheduled)
  /\ UNCHANGED <<stream, loopSet, sample_count, ended, delivered, recvPc,
                 inHand, startResult, stopCalls, streamStops,
                 streamCloses, returned, ptsLog, devices, opens, streamStarts>>
  /\ UNCHANGED sessVars
  /\ UNCHANGED handoffVars
  /\ UNCHANGED shellVars

\* A recv that answers an empty queue at once, with a frame of silence.
SilenceOnEmpty == "got"

\* "await self._queue.get()" on an empty queue suspends the caller
GetOnEmpty == "waiting"

\* recv up to "await self._queue.get()": it takes the oldest buffer, or
\* suspends on the empty queue.  The relay calls recv for a subscriber, and
\* offers subscribe only once on_startup has returned.
RecvCall ==
  /\ startResult = "ok"
  /\ recvPc = "idle"
  /\ IF queue # <<>>
       THEN /\ inHand' = Head(queue)
            /\ queue' = Tail(queue)
            /\ recvPc' = "got"
       ELSE /\ recvPc' = GetOnEmpty
            /\ UNCHANGED <<inHand, queue>>
  /\ UNCHANGED <<stream, loopSet, sample_count, ended, delivered, scheduled,
                 startResult, stopCalls, streamStops, streamCloses,
                 pushed, evicted, returned, ptsLog, devices, opens,
                 streamStarts>>
  /\ UNCHANGED sessVars
  /\ UNCHANGED handoffVars
  /\ UNCHANGED shellVars

\* the suspended queue.get() resumes once a buffer has been put
RecvWake ==
  /\ recvPc = "waiting"
  /\ queue # <<>>
  /\ inHand' = Head(queue)
  /\ queue' = Tail(queue)
  /\ recvPc' = "got"
  /\ UNCHANGED <<stream, loopSet, sample_count, ended, delivered, scheduled,
                 startResult, stopCalls, streamStops, streamCloses,
                 pushed, evicted, returned, ptsLog, devices, opens,
                 streamStarts>>
  /\ UNCHANGED sessVars
  /\ UNCHANGED handoffVars
  /\ UNCHANGED shellVars

\* frame.pts as recv sets it
FramePts == sample_count

\* the rest of recv: build the frame, stamp it, return it
RecvReturn ==
  /\ recvPc = "got"
  /\ returned' = Append(returned, inHand)
  /\ ptsLog' = IF Len(ptsLog) < 2 THEN Append(ptsLog, FramePts)
               ELSE <<ptsLog[2], FramePts>>
  /\ inHand' = 0
  /\ recvPc' = "idle"
  /\ UNCHANGED <<stream, loopSet, sample_count, queue, ended, delivered,
                 scheduled, startResult, stopCalls, streamStops,
                 streamCloses, pushed, evicted, devices, opens,
                 streamStarts>>
  /\ UNCHANGED sessVars
  /\ UNCHANGED handoffVars
  /\ UNCHANGED shellVars

\* stop: stop and close the device stream if there is one, then end the track
stop ==
  /\ stopCalls < MaxStopCalls
  /\ stopCalls' = stopCalls + 1
  /\ IF stream # "none"
       THEN /\ streamStops' = streamStops + 1
            /\ streamCloses' = streamCloses + 1
            /\ stream' = "closed"
       ELSE UNCHANGED <<streamStops, streamCloses, stream>>
  /\ ended' = TRUE
  /\ UNCHANGED <<loopSet, sample_count, queue, delivered, scheduled, recvPc,
                 inHand, startResult, pushed, evicted, returned,
                 ptsLog, devices, opens, streamStarts>>
  /\ UNCHANGED handoffVars

\* on_startup's call of start_capture, seen from the track alone
StartCapture == start_capture /\ UNCHANGED sessVars /\ UNCHANGED shellVars

\* a call of stop, seen from the track alone
Stop == stop /\ UNCHANGED sessVars /\ UNCHANGED shellVars

\* loop.close(): the loop runs nothing any more, the calls it had scheduled
\* are dropped
LoopClose ==
  /\ loopSet
  /\ ~loopClosed
  /\ loopClosed' = TRUE
  /\ scheduled' = <<>>
  /\ UNCHANGED <<stream, loopSet, sample_count, queue, ended, delivered,
                 recvPc, inHand, startResult, stopCalls, streamStops,
                 streamCloses, pushed, evicted, returned, ptsLog, devices,
                 opens, streamStarts, lastStatus, handoffErrors,
                 callbackRaised>>
  /\ UNCHANGED sessVars
  /\ UNCHANGED shellVars

CaptureNext ==
  \/ StartCapture
  \/ Callback
  \/ PushFrame
  \/ RecvCall
  \/ RecvWake
  \/ RecvReturn
  \/ Stop

\* ------------------------------------------------- registry and signalling

SessInit ==
  /\ app = "init"
  /\ audio_track = "none"
  /\ pcs = {}
  /\ cs = [s \in Sessions |-> "none"]
  /\ closeSt = [s \in Sessions |-> "open"]
  /\ handles = {}
  /\ subs = {}
  /\ hq = [s \in Sessions |-> 0]
  /\ hwait = [s \in Sessions |-> 0]
  /\ offerSt = [s \in Sessions |-> "none"]
  /\ offerBody = [s \in Sessions |-> "none"]
  /\ shutSnapshot = {}
  /\ handleReleases = [s \in Sessions |-> 0]
  /\ subReleases = [s \in Sessions |-> 0]
  /\ failRuns = [s \in Sessions |-> 0]
  /\ handlerErrors = 0
  /\ lastOffer = <<"none", "none">>
  /\ tracksCreated = 0

\* ------------------------------------------------------------ the GUI shells

\* _populate_devices: the positions of the devices it lists (the inputs),
\* from position i on
RECURSIVE InputPositions(_, _)
InputPositions(devs, i) ==
  IF i > Len(devs) THEN <<>>
  ELSE (IF devs[i].max_input_channels > 0 THEN <<i>> ELSE <<>>)
         \o InputPositions(devs, i + 1)

\* _populate_devices: default_idx after the devices from position i on, with
\* count entries listed so far
RECURSIVE DefaultIdx(_, _, _, _)
DefaultIdx(devs, i, count, idx) ==
  IF i > Len(devs) THEN idx
  ELSE IF devs[i].max_input_channels > 0
    THEN LET name == Lower(devs[i].name)
             idx1 == IF Contains(priority_keywords[1], name) THEN count
                     ELSE IF Contains(priority_keywords[3], name)
                             \/ Contains(priority_keywords[4], name)
                       THEN (IF idx = 0 THEN count ELSE idx)
                     ELSE idx
         IN  DefaultIdx(devs, i + 1, count + 1, idx1)
    ELSE DefaultIdx(devs, i + 1, count, idx)

\* the devices the Audio Source selector offers
Selectable(devs) ==
  {Index(InputPositions(devs, 1)[n]) : n \in 1..Len(InputPositions(devs, 1))}

\* the device the selector shows after _populate_devices
ComboDefault(devs) ==
  IF InputPositions(devs, 1) = <<>> THEN None
  ELSE Index(InputPositions(devs, 1)[DefaultIdx(devs, 1, 0, 0) + 1])

\* a shell after __init__: nothing started, the selector on its default
ShellInit ==
  /\ server_running = FALSE
  /\ starting_server = FALSE
  /\ btn = "start"
  /\ selected = ComboDefault(devices)
  /\ run = [k \in Runs |-> "none"]
  /\ loopOf = 0
  /\ stopReq = {}
  /\ port = 0
  /\ sigq = <<>>
  /\ trackRef = 0
  /\ tstream = [k \in Runs |-> "none"]
  /\ topen = [k \in Runs |-> None]
  /\ selAtStart = [k \in Runs |-> None]
  /\ stopper = [k \in Runs |-> 0]

Init == TrackInit /\ SessInit /\ devices = HostDevices /\ ShellInit

CaptureSpec == Init /\ [][CaptureNext]_vars

\* start_capture on any host: the device list is any list of catalogue devices
SelectInit == TrackInit /\ SessInit /\ devices \in DeviceLists /\ ShellInit

SelectNext ==
  \/ StartCapture
  \/ Stop

SelectSpec == SelectInit /\ [][SelectNext]_vars

\* the producer side alone, with a loop that may be closed under it
ProducerNext ==
  \/ StartCapture
  \/ Callback
  \/ PushFrame
  \/ LoopClose
  \/ Stop

ProducerSpec == Init /\ [][ProducerNext]_vars

\* ------------------------------------- the shells' clicks and server threads

\* the thread the next threading.Thread(target=self._run_server) is
FreeRuns == {k \in Runs : run[k] = "none"}
NextRun == CHOOSE k \in FreeRuns : \A j \in FreeRuns : k <= j

\* _start_server: the server thread is made and started
ThreadStart(k) ==
  /\ run' = [run EXCEPT ![k] = "setup"]
  /\ selAtStart' = [selAtStart EXCEPT ![k] = selected]

\* the threads whose loop still runs callbacks, now or later
LoopLives(k) == run[k] \in {"setup", "up", "bound", "serving"}

\* _stop_server: loop.stop is scheduled on self.loop, the flag and the button
\* are reset at once
StopServer ==
  /\ stopReq' = IF loopOf # 0 /\ LoopLives(loopOf)
                  THEN stopReq \cup {loopOf} ELSE stopReq
  /\ server_running' = FALSE
  /\ btn' = "start"
  /\ UNCHANGED <<starting_server, selected, run, loopOf, port, sigq,
                 trackRef, tstream, topen, selAtStart, stopper>>

\* app.py, _toggle_server with server_running false: _start_server
TkClickStart ==
  /\ ~server_running
  /\ FreeRuns # {}
  /\ ThreadStart(NextRun)
  /\ btn' = "stop"
  /\ UNCHANGED <<server_running, starting_server, selected, loopOf, stopReq,
                 port, sigq, trackRef, tstream, topen, stopper>>
  /\ UNCHANGED <<captureVars, sessVars>>

\* app.py, _toggle_server with server_running true: _stop_server
TkClickStop ==
  /\ server_running
  /\ StopServer
  /\ UNCHANGED <<captureVars, sessVars>>

\* the user picks another entry of the Audio Source selector
ChooseDevice ==
  /\ \E d \in Selectable(devices) \ {selected} : selected' = d
  /\ UNCHANGED <<server_running, starting_server, btn, run, loopOf, stopReq,
                 port, sigq, trackRef, tstream, topen, selAtStart, stopper>>
  /\ UNCHANGED <<captureVars, sessVars>>

\* A _start_server without the check of its flags.
NoStartGuard(starting, running) == FALSE

\* app_pyqt.py, _start_server: "if self._starting_server or
\* self.server_running: return"
StartGuard(starting, running) == starting \/ running

\* app_pyqt.py, _toggle_server with server_running false: _start_server,
\* which returns on its flags or on a port that is taken
QtClickStart ==
  /\ ~server_running
  /\ FreeRuns # {}
  /\ IF StartGuard(starting_server, server_running) \/ port # 0
       THEN UNCHANGED shellVars
       ELSE /\ starting_server' = TRUE
            /\ ThreadStart(NextRun)
            /\ btn' = "stop"
            /\ UNCHANGED <<server_running, selected, loopOf, stopReq, port,
                           sigq, trackRef, tstream, topen, stopper>>
  /\ UNCHANGED <<captureVars, sessVars>>

\* app_pyqt.py, _toggle_server with server_running true: _stop_server
QtClickStop ==
  /\ server_running
  /\ StopServer
  /\ UNCHANGED <<captureVars, sessVars>>

\* app_pyqt.py: the GUI thread runs the slot of the oldest pending signal,
\* _on_server_started or _on_server_error
QtDeliver ==
  /\ sigq # <<>>
  /\ sigq' = Tail(sigq)
  /\ starting_server' = FALSE
  /\ IF Head(sigq) = "error"
       THEN server_running' = FALSE /\ btn' = "start"
       ELSE UNCHANGED <<server_running, btn>>
  /\ UNCHANGED <<selected, run, loopOf, stopReq, port, trackRef, tstream,
                 topen, selAtStart, stopper>>
  /\ UNCHANGED <<captureVars, sessVars>>

\* an exception ends _run_server: app.py lets it end the thread, app_pyqt.py
\* catches it and emits server_error
SignalsAfterFailure(qt) == IF qt THEN Append(sigq, "error") ELSE sigq

\* _run_server up to the end of runner.setup(): self.loop is set, on_startup
\* makes the track the global audio_track and starts the capture on the
\* device _find_loopback selects; start_capture may raise
RunSetup(k, qt) ==
  /\ run[k] = "setup"
  /\ loopOf' = k
  /\ trackRef' = k
  /\ topen' = [topen EXCEPT ![k] = find_loopback(devices)]
  /\ \E outcome \in {"ok", "capture_raises"} :
       IF outcome = "ok"
         THEN /\ tstream' = [tstream EXCEPT ![k] = "active"]
              /\ run' = [run EXCEPT ![k] = "up"]
              /\ UNCHANGED sigq
         ELSE /\ run' = [run EXCEPT ![k] = "died"]
              /\ sigq' = SignalsAfterFailure(qt)
              /\ UNCHANGED tstream
  /\ UNCHANGED <<server_running, starting_server, btn, selected, stopReq,
                 port, selAtStart, stopper>>
  /\ UNCHANGED <<captureVars, sessVars>>

\* how site.start() may end: the port is bound, or it is in use (by a thread
\* of this shell or by another program), or a stop scheduled on the loop
\* ends run_until_complete before the site has started
SiteStartOutcomes(k) ==
  (IF port = 0 THEN {"ok"} ELSE {}) \cup {"port_in_use"}
    \cup (IF k \in stopReq THEN {"loop_stopped"} ELSE {})

\* _run_server, site.start()
SiteStart(k, qt) ==
  /\ run[k] = "up"
  /\ \E outcome \in SiteStartOutcomes(k) :
       IF outcome = "ok"
         THEN /\ port' = k
              /\ run' = [run EXCEPT ![k] = "bound"]
              /\ UNCHANGED <<sigq, stopReq>>
         ELSE /\ run' = [run EXCEPT ![k] = "died"]
              /\ sigq' = SignalsAfterFailure(qt)
              /\ stopReq' = stopReq \ {k}
              /\ UNCHANGED port
  /\ UNCHANGED <<server_running, starting_server, btn, selected, loopOf,
                 trackRef, tstream, topen, selAtStart, stopper>>
  /\ UNCHANGED <<captureVars, sessVars>>

\* _run_server: "self.server_running = True", then the shell is told
\* (app_pyqt.py emits server_started), then run_forever
SetRunning(k, qt) ==
  /\ run[k] = "bound"
  /\ server_running' = TRUE
  /\ sigq' = IF qt THEN Append(sigq, "started") ELSE sigq
  /\ run' = [run EXCEPT ![k] = "serving"]
  /\ UNCHANGED <<starting_server, btn, selected, loopOf, stopReq, port,
                 trackRef, tstream, topen, selAtStart, stopper>>
  /\ UNCHANGED <<captureVars, sessVars>>

\* the scheduled loop.stop runs: run_forever returns and runner.cleanup()
\* begins by stopping the site, which frees the port
LoopStopped(k) ==
  /\ run[k] = "serving"
  /\ k \in stopReq
  /\ stopReq' = stopReq \ {k}
  /\ port' = IF port = k THEN 0 ELSE port
  /\ run' = [run EXCEPT ![k] = "cleanup"]
  /\ UNCHANGED <<server_running, starting_server, btn, selected, loopOf,
                 sigq, trackRef, tstream, topen, selAtStart, stopper>>
  /\ UNCHANGED <<captureVars, sessVars>>

\* runner.cleanup() goes on to on_shutdown: "if audio_track:
\* audio_track.stop()" on whatever track the global refers to now
RunShutdown(k) ==
  /\ run[k] = "cleanup"
  /\ run' = [run EXCEPT ![k] = "done"]
  /\ IF trackRef # 0
       THEN /\ tstream' = [tstream EXCEPT ![trackRef] =
                             IF @ = "none" THEN "none" ELSE "closed"]
            /\ stopper' = [stopper EXCEPT ![trackRef] = k]
       ELSE UNCHANGED <<tstream, stopper>>
  /\ UNCHANGED <<server_running, starting_server, btn, selected, loopOf,
                 stopReq, port, sigq, trackRef, topen, selAtStart>>
  /\ UNCHANGED <<captureVars, sessVars>>

\* the CustomTkinter shell (app.py)
TkNext ==
  \/ TkClickStart
  \/ TkClickStop
  \/ ChooseDevice
  \/ \E k \in Runs : RunSetup(k, FALSE)
  \/ \E k \in Runs : SiteStart(k, FALSE)
  \/ \E k \in Runs : SetRunning(k, FALSE)
  \/ \E k \in Runs : LoopStopped(k)
  \/ \E k \in Runs : RunShutdown(k)

TkSpec == Init /\ [][TkNext]_vars

\* the PyQt shell (app_pyqt.py)
QtNext ==
  \/ QtClickStart
  \/ QtClickStop
  \/ QtDeliver
  \/ \E k \in Runs : RunSetup(k, TRUE)
  \/ \E k \in Runs : SiteStart(k, TRUE)
  \/ \E k \in Runs : SetRunning(k, TRUE)
  \/ \E k \in Runs : LoopStopped(k)
  \/ \E k \in Runs : RunShutdown(k)

QtSpec == Init /\ [][QtNext]_vars

\* A host that starts listening whatever on_startup did.
ListensAnyway(result) == "serving"

\* the host after "runner.setup()": on_startup's exception leaves setup, so
\* the site is never started; otherwise the site listens
AppAfterStartup(result) == IF result = "ok" THEN "serving" ELSE "unavailable"

\* on_startup: make the track, start the capture.  An exception leaves the
\* application unstarted.
OnStartup ==
  /\ app = "init"
  /\ audio_track' = "track"
  /\ tracksCreated' = tracksCreated + 1
  /\ start_capture
  /\ app' = AppAfterStartup(startResult')
  /\ UNCHANGED <<pcs, cs, closeSt, handles, subs, hq, hwait, offerSt,
                 offerBody, shutSnapshot, handleReleases, subReleases, failRuns,
                 handlerErrors, lastOffer>>
  /\ UNCHANGED shellVars

\* the request bodies an offer may carry: one with the fields offer reads,
\* and one that lacks a field it reads (params["sdp"] and params["type"] are
\* read in one expression, which raises for either)
OfferBodies == {"ok", "no_sdp"}

\* An offer handler that reads no field of the body before it registers.
OfferUnchecked(body) == TRUE

\* offer: params["sdp"] and params["type"] are there
OfferParses(body) == body = "ok"

\* the session the next RTCPeerConnection() is
FreeSessions == {s \in Sessions : cs[s] = "none"}
NewSession == CHOOSE s \in FreeSessions : \A r \in FreeSessions : s <= r

\* A registration that adds nothing.
PcsAddNothing(set, s) == set

\* pcs.add(pc)
PcsAdd(set, s) == set \cup {s}

\* An offer that constructs a capture track of its own.
TrackPerOffer(n) == n + 1

\* relay.subscribe(audio_track): the offer takes the one global track, it
\* constructs none
TracksAfterOffer(n) == n

\* offer, up to its first await after the registration: read the body, make
\* the peer connection, register it, subscribe it, register the handler.
Offer ==
  /\ app \in {"serving", "gathering", "closing"}
  /\ \E body \in OfferBodies :
       IF OfferParses(body)
         THEN /\ FreeSessions # {}
              /\ LET s == NewSession IN
                   /\ pcs' = PcsAdd(pcs, s)
                   /\ handles' = handles \cup {s}
                   /\ subs' = subs \cup {s}
                   /\ cs' = [cs EXCEPT ![s] = "new"]
                   /\ offerSt' = [offerSt EXCEPT ![s] = "inflight"]
                   /\ offerBody' = [offerBody EXCEPT ![s] = body]
              /\ UNCHANGED lastOffer
         ELSE /\ lastOffer' = <<body, "error">>
              /\ UNCHANGED <<pcs, handles, subs, cs, offerSt, offerBody>>
  /\ tracksCreated' = TracksAfterOffer(tracksCreated)
  /\ UNCHANGED <<app, audio_track, closeSt, hq, hwait, shutSnapshot,
                 handleReleases, subReleases, failRuns, handlerErrors>>
  /\ UNCHANGED captureVars
  /\ UNCHANGED shellVars

\* A failure path that empties the registry.
PcsClearedOnError(set, s) == {}

\* offer has no handler for the exception of a negotiation step: the registry
\* is as it was when the exception leaves offer
PcsAfterOfferError(set, s) == set

\* offer, the rest: setRemoteDescription, createAnswer, setLocalDescription,
\* the response.  The transport may reject the description, and does so on a
\* peer connection that has been closed meanwhile.
OfferNegotiate(s) ==
  /\ offerSt[s] = "inflight"
  /\ \E accepted \in {b \in BOOLEAN : b => closeSt[s] = "open"} :
       IF accepted
         THEN /\ cs' = [cs EXCEPT ![s] = "connecting"]
              /\ hq' = [hq EXCEPT ![s] = @ + 1]
              /\ offerSt' = [offerSt EXCEPT ![s] = "answered"]
              /\ lastOffer' = <<"ok", "answer">>
              /\ UNCHANGED pcs
         ELSE /\ offerSt' = [offerSt EXCEPT ![s] = "failed"]
              /\ lastOffer' = <<"ok", "error">>
              /\ pcs' = PcsAfterOfferError(pcs, s)
              /\ UNCHANGED <<cs, hq>>
  /\ UNCHANGED <<app, audio_track, closeSt, handles, subs, hwait,
                 offerBody, shutSnapshot, handleReleases, subReleases,
                 failRuns, handlerErrors, tracksCreated>>
  /\ UNCHANGED captureVars
  /\ UNCHANGED shellVars

\* A transport that brings a failed connection back.
ReportableWithReconnect(c) ==
  CASE c = "connecting" -> {"connected", "failed"}
    [] c = "connected" -> {"failed", "closed"}
    [] c = "failed" -> {"connected"}
    [] OTHER -> {}

\* the states the transport may report next
ReportableAfter(c) ==
  CASE c = "connecting" -> {"connected", "failed"}
    [] c = "connected" -> {"failed", "closed"}
    [] OTHER -> {}

\* the transport reports a state change; the handler is scheduled
TransportChange(s) ==
  /\ closeSt[s] = "open"
  /\ \E c \in ReportableAfter(cs[s]) : cs' = [cs EXCEPT ![s] = c]
  /\ hq' = [hq EXCEPT ![s] = @ + 1]
  /\ UNCHANGED <<app, audio_track, pcs, closeSt, handles, subs, hwait,
                 offerSt, offerBody, shutSnapshot, handleReleases, subReleases, failRuns,
                 handlerErrors,
                 lastOffer, tracksCreated>>
  /\ UNCHANGED captureVars
  /\ UNCHANGED shellVars

\* on_connectionstatechange: the state it cleans up on
HandlerActsOn(c) == c = "failed"

\* pc.close() is called: a first call starts the close, every caller waits
\* for the close to end
PcCloseCalled(st) == IF st = "open" THEN "closing" ELSE st

\* on_connectionstatechange up to "await pc.close()": reads the state the
\* connection has now
HandlerRun(s) ==
  /\ hq[s] > 0
  /\ hq' = [hq EXCEPT ![s] = @ - 1]
  /\ IF HandlerActsOn(cs[s])
       THEN /\ closeSt' = [closeSt EXCEPT ![s] = PcCloseCalled(@)]
            /\ hwait' = [hwait EXCEPT ![s] = @ + 1]
       ELSE UNCHANGED <<closeSt, hwait>>
  /\ UNCHANGED <<app, audio_track, pcs, cs, handles, subs, offerSt, offerBody,
                 shutSnapshot, handleReleases, subReleases, failRuns,
                 handlerErrors,
                 lastOffer, tracksCreated>>
  /\ UNCHANGED captureVars
  /\ UNCHANGED shellVars

\* pc.close() ends: the sender and its track are stopped (the subscription
\* goes), the transports are closed, the connection state is closed
PcCloseEnd(s) ==
  /\ closeSt[s] = "closing"
  /\ closeSt' = [closeSt EXCEPT ![s] = "closed"]
  /\ cs' = [cs EXCEPT ![s] = "closed"]
  /\ handles' = handles \ {s}
  /\ subs' = subs \ {s}
  /\ handleReleases' = [handleReleases EXCEPT ![s] = @ + 1]
  /\ subReleases' = [subReleases EXCEPT ![s] = @ + 1]
  /\ UNCHANGED <<app, audio_track, pcs, hq, hwait, offerSt, offerBody, shutSnapshot,
                 failRuns, handlerErrors,
                 lastOffer, tracksCreated>>
  /\ UNCHANGED captureVars
  /\ UNCHANGED shellVars

\* A registry that keeps the session.
PcsKeep(set, s) == set

\* pcs.discard(pc)
PcsDiscard(set, s) == set \ {s}

\* set.remove raises KeyError for a missing element.
PcsRemoveRaises(set, s) == s \notin set

\* pcs.discard(pc) never raises
PcsDiscardRaises(set, s) == FALSE

\* on_connectionstatechange after "await pc.close()": pcs.discard(pc)
HandlerResume(s) ==
  /\ hwait[s] > 0
  /\ closeSt[s] = "closed"
  /\ hwait' = [hwait EXCEPT ![s] = @ - 1]
  /\ pcs' = PcsDiscard(pcs, s)
  /\ handlerErrors' = handlerErrors + (IF PcsDiscardRaises(pcs, s) THEN 1 ELSE 0)
  /\ failRuns' = [failRuns EXCEPT ![s] = @ + 1]
  /\ UNCHANGED <<app, audio_track, cs, closeSt, handles, subs, hq, offerSt, offerBody,
                 shutSnapshot, handleReleases, subReleases,
                 lastOffer, tracksCreated>>
  /\ UNCHANGED captureVars
  /\ UNCHANGED shellVars

\* on_shutdown, its tail: pcs.clear(), then audio_track.stop()
ShutdownTail ==
  /\ pcs' = {}
  /\ IF audio_track # "none" THEN stop ELSE UNCHANGED captureVars
  /\ app' = "stopped"

\* on_shutdown up to "await asyncio.gather(*coros)"; with nothing to close
\* the gather is done at once and on_shutdown runs to its end
ShutdownBegin ==
  /\ app = "serving"
  /\ shutSnapshot' = pcs
  /\ IF pcs = {}
       THEN ShutdownTail
       ELSE /\ app' = "gathering"
            /\ UNCHANGED pcs
            /\ UNCHANGED captureVars
  /\ UNCHANGED <<audio_track, cs, closeSt, handles, subs, hq, hwait, offerSt, offerBody,
                 handleReleases, subReleases, failRuns, handlerErrors,
                 lastOffer, tracksCreated>>
  /\ UNCHANGED shellVars

\* the tasks gather made start one after the other: each calls pc.close()
ShutdownStartCloses ==
  /\ app = "gathering"
  /\ app' = "closing"
  /\ closeSt' = [s \in Sessions |->
                   IF s \in shutSnapshot THEN PcCloseCalled(closeSt[s])
                   ELSE closeSt[s]]
  /\ UNCHANGED <<audio_track, pcs, cs, handles, subs, hq, hwait, offerSt,
                 offerBody, shutSnapshot, handleReleases, subReleases, failRuns,
                 handlerErrors,
                 lastOffer, tracksCreated>>
  /\ UNCHANGED captureVars
  /\ UNCHANGED shellVars

\* A gather that is not awaited.
GatherNotAwaited == TRUE

\* "await asyncio.gather(*coros)" is over: every close has ended
GatherDone == \A s \in shutSnapshot : closeSt[s] = "closed"

\* on_shutdown after the gather
ShutdownFinish ==
  /\ app = "closing"
  /\ GatherDone
  /\ ShutdownTail
  /\ UNCHANGED <<audio_track, cs, closeSt, handles, subs, hq, hwait, offerSt,
                 offerBody, shutSnapshot, handleReleases, subReleases, failRuns,
                 handlerErrors,
                 lastOffer, tracksCreated>>
  /\ UNCHANGED shellVars

Next ==
  \/ OnStartup
  \/ Offer
  \/ \E s \in Sessions : OfferNegotiate(s)
  \/ \E s \in Sessions : TransportChange(s)
  \/ \E s \in Sessions : HandlerRun(s)
  \/ \E s \in Sessions : PcCloseEnd(s)
  \/ \E s \in Sessions : HandlerResume(s)
  \/ ShutdownBegin
  \/ ShutdownStartCloses
  \/ ShutdownFinish

Spec == Init /\ [][Next]_vars

\* ------------------------------------------------------------------ claims

\* C1 (state part): the queue never holds more than 20 buffers, it holds the
\* most recently pushed buffers in push order, and no buffer that
\* _push_frame evicted is in the queue, in recv's hand or among the buffers
\* recv returned.
QueueIsLatestPushed ==
  /\ Len(queue) <= QUEUE_MAXSIZE
  /\ \A i \in 1..Len(queue) : queue[i] = pushed - Len(queue) + i
  /\ \A i \in 1..Len(queue) : queue[i] \notin evicted
  /\ inHand \notin evicted
  /\ \A i \in 1..Len(returned) : returned[i] \notin evicted

\* C1 (step part): a push onto a full queue evicts exactly the oldest buffer,
\* leaves the length at 20 and makes the pushed buffer the newest of the queue.
PushOnFullEvictsOldest ==
  (pushed' # pushed /\ Len(queue) = QUEUE_MAXSIZE) =>
     /\ Len(queue') = QUEUE_MAXSIZE
     /\ queue' = Append(Tail(queue), pushed')
     /\ evicted' = evicted \cup {Head(queue)}

\* C1: pushes beyond the capacity of 20 leave exactly the 20 most recently
\* pushed buffers in the queue, in push order; each push onto a full queue
\* evicts one buffer, the oldest, which no later recv returns, and admits the
\* new one.
C1_DropOldest == []QueueIsLatestPushed /\ [][PushOnFullEvictsOldest]_vars

\* C1 witness: a push onto the full queue has evicted buffer 1, the queue is
\* full again and ends with the buffer just pushed.
C1_Witness ==
  /\ 1 \in evicted
  /\ Len(queue) = QUEUE_MAXSIZE
  /\ pushed = QUEUE_MAXSIZE + 1
  /\ queue[QUEUE_MAXSIZE] = pushed

\* C2: the pts of two consecutive frames returned by recv differ by exactly
\* FRAME_SAMPLES.
C2_PtsStepIsFrameSamples ==
  Len(ptsLog) = 2 => ptsLog[2] - ptsLog[1] = FRAME_SAMPLES

\* C9: whatever start_capture did and however often stop is called, the
\* device stream is stopped at most once and closed at most once.
C9_StreamReleasedAtMostOnce == streamStops <= 1 /\ streamCloses <= 1

\* C10: once the track is stopped and nothing more can reach the queue (no
\* push is scheduled, the queue is empty, the device delivers no callback),
\* no recv is left suspended on the queue.
C10_StopReleasesRecv ==
  (ended /\ stream # "active" /\ scheduled = <<>> /\ queue = <<>>)
     => recvPc # "waiting"

\* C3: once a run of the handler's failed branch has completed for a
\* session, the session's transport handle is closed, it holds no relay
\* subscription and it is not in the registry.
C3_FailedSessionCleaned ==
  \A s \in Sessions :
    failRuns[s] > 0 =>
      /\ closeSt[s] = "closed"
      /\ s \notin handles
      /\ s \notin subs
      /\ s \notin pcs

\* C3 witness: the service is serving and the failed branch has completed
\* for a session whose transport had reported failed.
C3_Witness ==
  /\ app = "serving"
  /\ \E s \in Sessions : failRuns[s] = 1 /\ handleReleases[s] = 1

\* nothing is in progress: no handler is scheduled or suspended, no close is
\* under way, no offer is in flight, on_shutdown is not running
Quiescent ==
  /\ app \in {"serving", "stopped"}
  /\ \A s \in Sessions :
       /\ hq[s] = 0
       /\ hwait[s] = 0
       /\ closeSt[s] # "closing"
       /\ offerSt[s] # "inflight"

\* C4: in a quiescent state the registry holds no session whose state is
\* closed or failed, and no such session holds a handle or a subscription.
C4_NoTerminalSessionRegistered ==
  Quiescent =>
    \A s \in Sessions :
      cs[s] \in {"closed", "failed"} =>
        s \notin pcs /\ s \notin subs /\ s \notin handles

\* C5 (state part): capture is stopped at most once, and exactly once when
\* on_shutdown has completed.
CaptureStoppedOnce ==
  /\ stopCalls <= 1
  /\ streamStops <= 1
  /\ app = "stopped" => (stopCalls = 1 /\ streamStops = 1 /\ stream = "closed")

\* C5 (step part): the step in which on_shutdown stops the capture finds
\* every session that was registered when on_shutdown began closed, without
\* subscription and without open handle, and leaves the registry empty.
StopAfterAllClosed ==
  (app' = "stopped" /\ app # "stopped") =>
     /\ \A s \in shutSnapshot' :
          /\ cs[s] = "closed"
          /\ closeSt[s] = "closed"
          /\ s \notin subs
          /\ s \notin handles
     /\ stopCalls' = stopCalls + 1
     /\ pcs' = {}

\* C5: on_shutdown closes every session registered when it began, releases
\* their subscriptions, empties the registry and stops the capture exactly
\* once, after every one of those closes.
C5_ShutdownClosesThenStops ==
  []CaptureStoppedOnce /\ [][StopAfterAllClosed]_vars

\* C5 witness: on_shutdown has completed; every session of the run had been
\* answered and was registered when it began; all are closed and the capture
\* was stopped once.
C5_Witness ==
  /\ app = "stopped"
  /\ shutSnapshot = Sessions
  /\ \A s \in Sessions :
       offerSt[s] = "answered" /\ cs[s] = "closed" /\ s \notin subs
  /\ stopCalls = 1

\* C7 (state part): no session was created by a request that lacks sdp.
NoSessionFromBodyWithoutSdp ==
  \A s \in Sessions : offerBody[s] # "no_sdp"

\* C7 (step part): a request that lacks sdp ends with an error and leaves the
\* registry, the subscriptions, the handles and every session as they were.
OfferWithoutSdpChangesNothing ==
  (lastOffer' # lastOffer /\ lastOffer'[1] = "no_sdp") =>
     /\ lastOffer'[2] = "error"
     /\ pcs' = pcs
     /\ subs' = subs
     /\ handles' = handles
     /\ cs' = cs

\* C7: an offer whose body lacks the sdp field fails with an error and
\* registers no session: registry, subscriptions and handles are unchanged.
C7_OfferWithoutSdpRejected ==
  []NoSessionFromBodyWithoutSdp /\ [][OfferWithoutSdpChangesNothing]_vars

\* C7 witness: with a session registered, a request without sdp has just
\* been refused.
C7_Witness ==
  /\ lastOffer = <<"no_sdp", "error">>
  /\ pcs # {}

\* C8 (state part): no handle and no subscription is released twice, and no
\* run of the handler raises.
NothingReleasedTwice ==
  /\ handlerErrors = 0
  /\ \A s \in Sessions : handleReleases[s] <= 1 /\ subReleases[s] <= 1

\* C8 (step part): a further completed run of the failed branch for a session
\* changes neither the registry nor the subscriptions nor the handles.
SecondFailRunChangesNothing ==
  \A s \in Sessions :
    (failRuns'[s] = failRuns[s] + 1 /\ failRuns[s] >= 1) =>
       /\ pcs' = pcs
       /\ subs' = subs
       /\ handles' = handles
       /\ closeSt' = closeSt
       /\ cs' = cs

\* C8: the failure handling is idempotent: a second run for the same session
\* leaves registry, subscriptions and handle as the first run left them,
\* raises nothing and releases nothing a second time.
C8_FailureCleanupIdempotent ==
  []NothingReleasedTwice /\ [][SecondFailRunChangesNothing]_vars

\* C8 witness: the failed branch has completed twice for one session.
C8_Witness == \E s \in Sessions : failRuns[s] >= 2

\* C11: in a run whose capture did not start (on_startup raised), no session
\* is registered or created and no offer request has ended, answered or not.
C11_NoOfferWithoutCapture ==
  (app # "init" /\ startResult # "ok") =>
     /\ pcs = {}
     /\ \A s \in Sessions : cs[s] = "none" /\ offerSt[s] = "none"
     /\ lastOffer = <<"none", "none">>

\* on_startup has raised out of start_capture
C11_Witness ==
  /\ app = "unavailable"
  /\ startResult = "raised"
  /\ audio_track = "track"

\* the positions of the input-capable devices whose lower-cased name contains
\* keyword number k
InputMatches(k) ==
  {i \in 1..Len(devices) :
     /\ devices[i].max_input_channels > 0
     /\ Contains(priority_keywords[k], Lower(devices[i].name))}

\* the keywords some input-capable device matches
MatchedKeywords == {k \in DOMAIN priority_keywords : InputMatches(k) # {}}

\* the device list is Microphone, CABLE Output (VB-Audio), Speakers in some
\* order
IsHostOrdering ==
  /\ Len(devices) = Len(HostDevices)
  /\ {devices[i] : i \in 1..Len(devices)} =
       {HostDevices[i] : i \in 1..Len(HostDevices)}

\* C12: when some input-capable device matches a keyword, the device the
\* stream is opened on is the lowest-indexed device matching the
\* highest-priority matched keyword; for every ordering of Microphone,
\* CABLE Output (VB-Audio), Speakers it is the CABLE Output device.
C12_KeywordPriorityDominates ==
  /\ (opens # <<>> /\ MatchedKeywords # {}) =>
       LET k == CHOOSE x \in MatchedKeywords : \A y \in MatchedKeywords : x <= y
           i == CHOOSE x \in InputMatches(k) : \A y \in InputMatches(k) : x <= y
       IN  opens[1] = <<i - 1>>
  /\ (opens # <<>> /\ IsHostOrdering) =>
       /\ opens[1] # None
       /\ devices[opens[1][1] + 1].name = NameCableOutput

\* a later device wins over an earlier one on keyword priority
C12_Witness ==
  /\ devices = <<Device(NameMonitor, 2), Device(NameMicrophone, 2),
                 Device(NameCableOutput, 2)>>
  /\ opens = <<Index(3)>>

\* C13: when no input-capable device matches any keyword, the stream is
\* constructed on the platform default (device None): the selection does not
\* fail the start.
C13_NoMatchOpensDefault ==
  /\ startResult # "none" => Len(opens) = 1
  /\ (startResult # "none" /\ MatchedKeywords = {}) => opens = <<None>>

\* the only device with a keyword has no input channels; capture runs on the
\* default device
C13_Witness ==
  /\ devices = <<Device(NameLoopbackOut, 0), Device(NameMicrophone, 2)>>
  /\ opens = <<None>>
  /\ startResult = "ok"
  /\ stream = "active"

\* every returned frame carries one captured buffer, none twice
ReturnedAreCaptured ==
  /\ \A i \in 1..Len(returned) : returned[i] \in 1..delivered
  /\ \A i, j \in 1..Len(returned) : i < j => returned[i] < returned[j]
  /\ recvPc = "got" => inHand \in 1..delivered

\* recv returns only the buffer it dequeued
ReturnsWhatItDequeued ==
  returned' # returned =>
    /\ recvPc = "got"
    /\ returned' = Append(returned, inHand)

\* a recv suspended on the empty queue stays suspended and returns nothing
WaitsOnEmptyQueue ==
  (recvPc = "waiting" /\ queue = <<>>) =>
    /\ recvPc' = "waiting"
    /\ returned' = returned

\* C14: recv fabricates no frame: every frame it returns is one buffer the
\* callback delivered, no buffer is returned twice, and on an empty queue
\* recv stays suspended instead of returning.
C14_RecvNeverFabricates ==
  /\ []ReturnedAreCaptured
  /\ [][ReturnsWhatItDequeued]_vars
  /\ [][WaitsOnEmptyQueue]_vars

\* frames were returned, and recv now waits on the drained queue
C14_Witness ==
  /\ Len(returned) >= 2
  /\ recvPc = "waiting"
  /\ queue = <<>>
  /\ scheduled = <<>>

\* an offer request ends in an error in this step
OfferErrorStep ==
  \/ lastOffer' # lastOffer /\ lastOffer'[2] = "error"
  \/ \E s \in Sessions : offerSt[s] # "failed" /\ offerSt'[s] = "failed"

\* the sessions whose offer request does not end in this step
OtherSessions == {r \in Sessions : offerSt'[r] = offerSt[r]}

\* C15: a step in which an offer fails (a body that lacks a field, or a
\* negotiation the transport rejects) leaves every other session's connection
\* state, close state, registry membership, transport handle and subscription
\* as they were, and leaves the capture stream and the track as they were.
C15_OfferErrorIsLocal ==
  [][OfferErrorStep =>
       /\ \A r \in OtherSessions :
            /\ cs'[r] = cs[r]
            /\ closeSt'[r] = closeSt[r]
            /\ (r \in pcs') = (r \in pcs)
            /\ (r \in handles') = (r \in handles)
            /\ (r \in subs') = (r \in subs)
       /\ stream' = stream
       /\ ended' = ended
       /\ audio_track' = audio_track
       /\ app' = app]_vars

\* one session streams while the offer of the other has failed, and a
\* malformed offer was the last to end
C15_Witness ==
  /\ offerSt[1] = "answered" /\ cs[1] = "connected"
  /\ 1 \in pcs /\ 1 \in subs /\ 1 \in handles
  /\ offerSt[2] = "failed"
  /\ lastOffer = <<"no_sdp", "error">>
  /\ stream = "active"

\* the queue never holds more than its maxsize
QueueBounded == Len(queue) <= QUEUE_MAXSIZE

\* the callback can run whenever the stream is active, whatever the queue
\* and the consumer are doing
CallbackNeverWaits ==
  (stream = "active" /\ delivered < MaxBuffers /\ Len(scheduled) < MaxScheduled)
    => ENABLED Callback

\* a callback and a push complete in one step without touching the consumer
ProducerStepsComplete ==
  /\ delivered' # delivered =>
       queue' = queue /\ recvPc' = recvPc /\ Len(scheduled') = Len(scheduled) + 1
  /\ pushed' # pushed =>
       recvPc' = recvPc /\ Len(scheduled') = Len(scheduled) - 1
         /\ Len(queue') <= QUEUE_MAXSIZE

\* C18: under every interleaving of callbacks, scheduled pushes and recv the
\* queue holds at most 20 buffers, and the callback never waits on the
\* consumer: it is enabled and completes with the queue empty, partly filled
\* or full.
C18_QueueBoundedProducerFree ==
  /\ []QueueBounded
  /\ []CallbackNeverWaits
  /\ [][ProducerStepsComplete]_vars

\* a callback has completed on a full queue that has already lost buffers
C18_Witness ==
  /\ Len(queue) = QUEUE_MAXSIZE
  /\ scheduled # <<>>
  /\ evicted # {}
  /\ delivered > pushed

\* the subscriptions a session has had: the one it holds and those released
SubscriptionsOf(s) == (IF s \in subs THEN 1 ELSE 0) + subReleases[s]

\* C19: a run has at most one SystemAudioTrack, one device stream
\* constructed and one stream start -- exactly one of each while the service
\* serves -- and every session created by an offer has had exactly one relay
\* subscription, all on that track.
C19_OneCaptureStreamPerRun ==
  /\ tracksCreated <= 1
  /\ Len(opens) <= 1
  /\ streamStarts <= 1
  /\ app = "serving" => (tracksCreated = 1 /\ Len(opens) = 1 /\ streamStarts = 1)
  /\ \A s \in Sessions : cs[s] # "none" =>
       (audio_track = "track" /\ SubscriptionsOf(s) = 1)

\* every session has been offered and subscribed, on the one track
C19_Witness ==
  /\ subs = Sessions
  /\ pcs = Sessions
  /\ tracksCreated = 1
  /\ streamStarts = 1
  /\ stream = "active"

\* the step creates session s: one registry entry, one transport handle, one
\* subscription, and nothing for any other session
CreatesExactlyOne(s) ==
  /\ offerSt'[s] = "inflight"
  /\ s \notin pcs /\ pcs' = pcs \cup {s}
  /\ s \notin handles /\ handles' = handles \cup {s}
  /\ s \notin subs /\ subs' = subs \cup {s}
  /\ \A r \in Sessions \ {s} : cs'[r] = cs[r]

\* the registry, the handles and the subscriptions gain a session only in
\* the step that creates it
GainsOnlyByOffer ==
  \A s \in Sessions :
    (s \in pcs' \ pcs \/ s \in handles' \ handles \/ s \in subs' \ subs)
      => cs[s] = "none"

\* a session that failed or closed stays so
NoRetry ==
  \A s \in Sessions :
    cs[s] \in {"failed", "closed"} => cs'[s] \in {"failed", "closed"}

\* the handles a session has had
HandlesOf(s) == (IF s \in handles THEN 1 ELSE 0) + handleReleases[s]

\* C20: an offer that is answered has created exactly one session, with one
\* registry entry, one transport handle and one subscription; sessions come
\* into being only in the step of an offer, and a session that failed or
\* closed is never registered, given a handle, subscribed or connected again.
C20_OneSessionPerOfferNoRetry ==
  /\ [](\A s \in Sessions : offerSt[s] = "answered" =>
          (HandlesOf(s) = 1 /\ SubscriptionsOf(s) = 1 /\ offerBody[s] = "ok"))
  /\ [][\A s \in Sessions : (cs[s] = "none" /\ cs'[s] # "none") =>
          CreatesExactlyOne(s)]_vars
  /\ [][GainsOnlyByOffer]_vars
  /\ [][NoRetry]_vars

\* one session failed and was cleaned up, the other was answered and is
\* registered with its handle and subscription
C20_Witness ==
  \E s, r \in Sessions :
    /\ cs[s] = "closed" /\ failRuns[s] = 1 /\ s \notin pcs
    /\ offerSt[r] = "answered" /\ cs[r] = "connected"
    /\ r \in pcs /\ r \in handles /\ r \in subs

\* the moves of the state machine negotiating -> connected -> {closed,
\* failed} with closed and failed terminal; negotiating is "new" and
\* "connecting", and a negotiating session may end without connecting
TerminalMoves(c) ==
  CASE c = "none" -> {"new"}
    [] c = "new" -> {"connecting", "connected", "closed", "failed"}
    [] c = "connecting" -> {"connected", "closed", "failed"}
    [] c = "connected" -> {"closed", "failed"}
    [] OTHER -> {}

\* C21 (as stated): a session's state only moves forward along negotiating,
\* connected, {closed, failed}, and no session leaves closed or failed.
C21_ClosedAndFailedTerminal ==
  [][\A s \in Sessions : cs'[s] # cs[s] => cs'[s] \in TerminalMoves(cs[s])]_vars

\* the same moves, and failed to closed
ForwardMoves(c) ==
  IF c = "failed" THEN {"closed"} ELSE TerminalMoves(c)

\* C21 (amended): a session's state only moves forward along negotiating,
\* connected, {closed, failed}; closed is terminal, and a failed session
\* moves only to closed, never back to negotiating or connected.
C21_ForwardOnlyFailedToClosed ==
  [][\A s \in Sessions : cs'[s] # cs[s] => cs'[s] \in ForwardMoves(cs[s])]_vars

\* a session that connected, failed and was closed by the cleanup
C21_Witness ==
  \E s \in Sessions :
    /\ cs[s] = "closed"
    /\ failRuns[s] = 1
    /\ offerSt[s] = "answered"
    /\ closeSt[s] = "closed"

\* a callback has run in this step
CallbackStep == delivered' = delivered + 1

\* C22: a callback with a status flag hands its buffer to the event loop as
\* a callback without one does -- the buffer is scheduled for the queue, the
\* samples are counted -- and the stream stays active.
C22_StatusIsDiagnosticOnly ==
  [][(CallbackStep /\ ~loopClosed) =>
       /\ scheduled' = Append(scheduled, delivered')
       /\ sample_count' = sample_count + FRAME_SAMPLES
       /\ stream' = stream
       /\ queue' = queue]_vars

\* the buffer of a flagged callback is the newest in the queue, and capture
\* goes on
C22_Witness ==
  /\ lastStatus
  /\ delivered >= 2
  /\ queue # <<>>
  /\ queue[Len(queue)] = delivered
  /\ stream = "active"

\* a failed hand-off is caught: the callback counts it, loses the buffer and
\* leaves the stream as it is
FailedHandoffIsCaught ==
  (CallbackStep /\ loopClosed) =>
     /\ handoffErrors' = handoffErrors + 1
     /\ callbackRaised' = callbackRaised
     /\ stream' = stream
     /\ scheduled' = scheduled

\* C23: no exception leaves the callback; a hand-off that fails because the
\* loop is closed is caught, the callback returns, the stream stays active
\* and later callbacks run.
C23_NoErrorEscapesCallback ==
  /\ [](callbackRaised = 0)
  /\ [][FailedHandoffIsCaught]_vars

\* the loop was closed under an active stream: two callbacks in a row failed
\* to hand off, and the stream is still delivering
C23_Witness ==
  /\ loopClosed
  /\ handoffErrors >= 2
  /\ stream = "active"
  /\ callbackRaised = 0

\* C24: the buffers between the callback and the consumer -- pushes
\* scheduled and not yet run, plus the queue -- never number more than the
\* queue's capacity.
C24_BacklogWithinCapacity ==
  Len(scheduled) + Len(queue) <= QUEUE_MAXSIZE

\* C25: after a failed offer the registry holds no session of that offer: the
\* session was closed, removed from pcs and its subscription released.
C25_FailedOfferLeavesNoSession ==
  \A s \in Sessions :
    offerSt[s] = "failed" =>
      (s \notin pcs /\ s \notin subs /\ s \notin handles)

\* a session leaves the registry only closed
LeavesRegistryClosed ==
  \A s \in Sessions : (s \in pcs /\ s \notin pcs') => closeSt'[s] = "closed"

\* once on_shutdown has completed every session ever registered is closed
AllClosedAfterShutdown ==
  app = "stopped" =>
    \A s \in Sessions : cs[s] # "none" => closeSt[s] = "closed"

\* C26: under every interleaving of on_shutdown with offers and failure
\* handlers a session leaves the registry only after its transport has been
\* closed, and when on_shutdown has completed every session ever registered
\* is closed.
C26_NoSessionClearedUnclosed ==
  /\ [][LeavesRegistryClosed]_vars
  /\ []AllClosedAfterShutdown

\* C27: across stop and start, the on_shutdown of a server thread stops the
\* capture track that thread's own on_startup made: no track is stopped by
\* another thread's shutdown, and a thread whose shutdown has completed
\* leaves no active stream of its own behind.
C27_ShutdownStopsOwnTrack ==
  \A k \in Runs :
    /\ stopper[k] \in {0, k}
    /\ run[k] = "done" => tstream[k] # "active"

\* the server threads that have not ended
LiveThreads == {k \in Runs : run[k] \in {"setup", "up", "bound", "serving", "cleanup"}}

\* the capture streams that are delivering
ActiveStreams == {k \in Runs : tstream[k] = "active"}

\* C28: in the CustomTkinter shell, whatever the clicks, at most one server
\* thread and at most one capture stream are alive at a time.
C28_OneThreadOneCapture ==
  /\ Cardinality(LiveThreads) <= 1
  /\ Cardinality(ActiveStreams) <= 1

\* the threads that are starting or serving and have not been told to stop
StartedThreads ==
  {k \in Runs : run[k] \in {"setup", "up", "bound", "serving"} /\ k \notin stopReq}

\* nothing of a start is under way: no thread is starting or serving, no
\* signal is pending
ShellAtRest == StartedThreads = {} /\ sigq = <<>>

\* the slot of server_error resets the shell
ErrorResetsShell ==
  (sigq # <<>> /\ Head(sigq) = "error" /\ sigq' = Tail(sigq)) =>
    (~server_running' /\ ~starting_server' /\ btn' = "start")

\* a thread is started only with both flags false
StartsOnlyWhenIdle ==
  run' # run /\ (\E k \in Runs : run[k] = "none" /\ run'[k] = "setup")
    => (~server_running /\ ~starting_server)

\* C29: in the PyQt shell a failed start leaves the shell not running, not
\* starting and showing Start, so that a later click starts a server; a
\* thread is started only with both flags false, and at most one thread is
\* starting or serving at a time.
C29_QtRecoversAndGuards ==
  /\ [](ShellAtRest => (~server_running /\ ~starting_server /\ btn = "start"))
  /\ [](Cardinality(StartedThreads) <= 1)
  /\ [][ErrorResetsShell]_vars
  /\ [][StartsOnlyWhenIdle]_vars

\* one start failed on the capture, one on the port, and the third click
\* started a server that now runs
C29_Witness ==
  /\ run[1] = "died" /\ tstream[1] = "none"
  /\ run[2] = "died" /\ tstream[2] = "active"
  /\ run[3] = "serving"
  /\ server_running /\ ~starting_server /\ btn = "stop"

\* C30: the stream of a server thread is opened on the device the selector
\* showed when the server was started.
C30_SelectedDeviceIsOpened ==
  \A k \in Runs : tstream[k] = "active" => topen[k] = selAtStart[k]

====
